---- MODULE Spec2Model ----
(***************************************************************************)
(* Model of src/server.js: the batch enrichment pipeline.                  *)
(* The module's top level checks the environment, parses the identifier    *)
(* spec from the command line and calls processEntries, which for each     *)
(* identifier awaits a source-store fetch, an LLM request                  *)
(* (processDataWithAI) and a destination-store insert.                     *)
(***************************************************************************)
EXTENDS Integers, Sequences, FiniteSets, TLC

\* ------------------------------------------------------------------ bounds
MaxLen == 3      \* longest command-line spec string explored (characters)
MaxIds == 3      \* longest identifier sequence explored

\* --------------------------------------------------------------- JS values
Undef == [t |-> "undefined"]
Null == [t |-> "null"]
NaN == [t |-> "nan"]
Num(n) == [t |-> "num", v |-> n]
Str(s) == [t |-> "str", s |-> s]
Arr(a) == [t |-> "arr", a |-> a]
Obj(f) == [t |-> "obj", f |-> f]
\* a string held as a sequence of pieces (prompts)
TextVal(s) == [t |-> "text", s |-> s]

\* property read o.name: undefined for a missing property or a non-object
Get(o, name) == IF o.t = "obj" /\ name \in DOMAIN o.f THEN o.f[name] ELSE Undef

\* JavaScript truthiness, as used by the ! operator
Truthy(v) ==
  CASE v.t = "undefined" -> FALSE
    [] v.t = "null" -> FALSE
    [] v.t = "nan" -> FALSE
    [] v.t = "num" -> v.v # 0
    [] v.t = "str" -> v.s # ""
    [] v.t = "text" -> v.s # <<>>
    [] OTHER -> TRUE

\* ----------------------------------------------------------- environment
EnvVars == {"SUPABASE_URL", "SUPABASE_ANON_KEY", "OPENROUTER_API_KEY"}

\* variant: the LLM credential is not checked
EnvOK_partial(e) == e["SUPABASE_URL"] /\ e["SUPABASE_ANON_KEY"]

\* line 18: every required variable is set
EnvOK(e) == \A n \in EnvVars : e[n]

\* ------------------------------------------------- identifier spec parsing
Digits == {"1", "3"}
Chars == Digits \cup {"-", ",", "a"}
ArgStrings == UNION {[1..n -> Chars] : n \in 0..MaxLen}

Includes(s, c) == \E i \in 1..Len(s) : s[i] = c

\* String.prototype.split(sep) for a one-character separator
RECURSIVE SplitAcc(_, _, _, _)
SplitAcc(s, sep, cur, acc) ==
  IF s = <<>> THEN Append(acc, cur)
  ELSE IF Head(s) = sep THEN SplitAcc(Tail(s), sep, <<>>, Append(acc, cur))
  ELSE SplitAcc(Tail(s), sep, Append(cur, Head(s)), acc)

Split(s, sep) == SplitAcc(s, sep, <<>>, <<>>)

DigitVal(c) == IF c = "1" THEN 1 ELSE 3

RECURSIVE DecVal(_, _)
DecVal(tok, acc) ==
  IF tok = <<>> THEN acc ELSE DecVal(Tail(tok), 10 * acc + DigitVal(Head(tok)))

\* Number(token): the empty string is 0, a digit string its value, else NaN
Number(tok) ==
  IF tok = <<>> THEN Num(0)
  ELSE IF \A i \in 1..Len(tok) : tok[i] \in Digits THEN Num(DecVal(tok, 0))
  ELSE NaN

\* variant: the range stops one short of max
RangeIds_exclusive(min, max) ==
  LET len == IF min.t = "nan" \/ max.t = "nan" THEN 0
             ELSE IF max.v - min.v < 0 THEN 0 ELSE max.v - min.v
  IN  [i \in 1..len |-> Num(min.v + (i - 1))]

\* Array.from({ length: max - min + 1 }, (_, i) => min + i)
RangeIds(min, max) ==
  LET len == IF min.t = "nan" \/ max.t = "nan" THEN 0
             ELSE IF max.v - min.v + 1 < 0 THEN 0 ELSE max.v - min.v + 1
  IN  [i \in 1..len |-> Num(min.v + (i - 1))]

\* variant: a spec with neither separator is taken as a one-element list
ParseIdList_single(a) ==
  IF Includes(a, "-")
  THEN LET toks == Split(a, "-")
       IN  [exit |-> FALSE, ids |-> RangeIds(Number(toks[1]), Number(toks[2]))]
  ELSE LET toks == Split(a, ",")
       IN  [exit |-> FALSE, ids |-> [i \in 1..Len(toks) |-> Number(toks[i])]]

\* variant: the list form drops an identifier it has already seen
RECURSIVE Dedup(_, _)
Dedup(ids, acc) ==
  IF ids = <<>> THEN acc
  ELSE IF \E i \in 1..Len(acc) : acc[i] = Head(ids) THEN Dedup(Tail(ids), acc)
  ELSE Dedup(Tail(ids), Append(acc, Head(ids)))

ParseIdList_dedup(a) ==
  IF Includes(a, "-")
  THEN LET toks == Split(a, "-")
       IN  [exit |-> FALSE, ids |-> RangeIds(Number(toks[1]), Number(toks[2]))]
  ELSE IF Includes(a, ",")
  THEN LET toks == Split(a, ",")
       IN  [exit |-> FALSE,
            ids |-> Dedup([i \in 1..Len(toks) |-> Number(toks[i])], <<>>)]
  ELSE [exit |-> TRUE, ids |-> <<>>]

\* lines 28-36: the identifier list, or exit(1)
ParseIdList(a) ==
  IF Includes(a, "-")
  THEN LET toks == Split(a, "-")
       IN  [exit |-> FALSE, ids |-> RangeIds(Number(toks[1]), Number(toks[2]))]
  ELSE IF Includes(a, ",")
  THEN LET toks == Split(a, ",")
       IN  [exit |-> FALSE, ids |-> [i \in 1..Len(toks) |-> Number(toks[i])]]
  ELSE [exit |-> TRUE, ids |-> <<>>]

\* ------------------------------------------------------ content generator
\* JSON documents the model may emit, named by a token; JSONValue gives the
\* value JSON.parse returns for the document.
Full1 == Obj([main_title |-> Str("T1"), main_description |-> Str("D1"),
              read_more_titles |-> Arr(<<"a", "b", "c">>),
              read_more_descriptions |-> Arr(<<"x", "y", "z">>)])
Full2 == Obj([main_title |-> Str("T2"), main_description |-> Str("D2"),
              read_more_titles |-> Arr(<<"d", "e", "f">>),
              read_more_descriptions |-> Arr(<<"u", "v", "w">>)])
\* lines 62-71: the fallback payload of the system instruction
Fallback == Obj([main_title |-> Str("Default Title"),
                 main_description |-> Str("default description"),
                 read_more_titles |-> Arr(<<"Title 1", "Title 2", "Title 3">>),
                 read_more_texts |-> Arr(<<"p1", "p2", "p3">>)])
NoDescription == Obj([main_title |-> Str("T1"),
                      read_more_titles |-> Arr(<<"a", "b", "c">>),
                      read_more_descriptions |-> Arr(<<"x", "y", "z">>)])
EmptyTitle == Obj([main_title |-> Str(""), main_description |-> Str("D1"),
                   read_more_titles |-> Arr(<<"a", "b", "c">>),
                   read_more_descriptions |-> Arr(<<"x", "y", "z">>)])
ShortTitles == Obj([main_title |-> Str("T1"), main_description |-> Str("D1"),
                    read_more_titles |-> Arr(<<"a", "b">>),
                    read_more_descriptions |-> Arr(<<"x", "y", "z">>)])
EmptyObj == Obj(<<>>)

JsonTexts == {"{full1}", "{full2}", "{fallback}", "{nodesc}", "{emptytitle}",
              "{shorttitles}", "{}", "null"}

JSONValue(tok) ==
  CASE tok = "{full1}" -> Full1
    [] tok = "{full2}" -> Full2
    [] tok = "{fallback}" -> Fallback
    [] tok = "{nodesc}" -> NoDescription
    [] tok = "{emptytitle}" -> EmptyTitle
    [] tok = "{shorttitles}" -> ShortTitles
    [] tok = "{}" -> EmptyObj
    [] tok = "null" -> Null

\* a completion body: a sequence of lexical pieces
\* the two fence markers of line 90 (three backquotes, with and without json)
FenceJson == "fence-json"
Fence == "fence"
NL == "\n"
\* the bodies explored in the pipeline
Contents == {<<j>> : j \in JsonTexts \ {"{full2}"}}
            \cup {<<FenceJson, NL, "{full1}", NL, Fence>>,
                  <<Fence, NL, "{fallback}", NL, Fence>>,
                  <<"junk">>, <<>>}

\* what the completion endpoint can answer (axios rejects on a network
\* failure and on a non-2xx status; "non_string_content" is a message whose
\* content is not a string, e.g. an array of parts)
OtherResponses == {[kind |-> "network_error"], [kind |-> "http_error"],
                   [kind |-> "no_choices"], [kind |-> "non_string_content"]}
LLMResponses == OtherResponses
                \cup {[kind |-> "content", content |-> c] : c \in Contents}

\* a body wrapped in json fences and in plain fences
WrapJson(j) == <<FenceJson, NL, j, NL, Fence>>
WrapPlain(j) == <<Fence, NL, j, NL, Fence>>

\* the bodies explored when processDataWithAI is exercised on its own
AllContents == Contents
               \cup {<<j>> : j \in JsonTexts}
               \cup {WrapJson(j) : j \in JsonTexts}
               \cup {WrapPlain(j) : j \in JsonTexts}
               \cup {<<NL, "{full1}", NL>>, <<FenceJson, "{full2}", Fence>>,
                     <<FenceJson, NL, "junk", NL, Fence>>, <<"{full1}", "junk">>}
AllResponses == OtherResponses
                \cup {[kind |-> "content", content |-> c] : c \in AllContents}

\* String.prototype.trim on a body: drop leading and trailing whitespace
RECURSIVE TrimLeft(_)
TrimLeft(s) == IF s # <<>> /\ Head(s) = NL THEN TrimLeft(Tail(s)) ELSE s

RECURSIVE TrimRight(_)
TrimRight(s) ==
  IF s # <<>> /\ s[Len(s)] = NL THEN TrimRight(SubSeq(s, 1, Len(s) - 1)) ELSE s

Trim(s) == TrimRight(TrimLeft(s))

\* variant: only json-tagged fences are stripped
StripFences_jsonOnly(s) == SelectSeq(s, LAMBDA x : x # FenceJson)

\* line 90: replace(/{fence}json|{fence}/g, ""), {fence} being three backquotes
StripFences(s) == SelectSeq(s, LAMBDA x : x \notin {FenceJson, Fence})

\* lines 92-98: JSON.parse, null on a parse error
ParseJson(s) ==
  IF Len(s) = 1 /\ s[1] \in JsonTexts THEN JSONValue(s[1]) ELSE Null

\* variant: the guard lets every input through
InvalidText_never(text) == FALSE

\* line 41: the guard of processDataWithAI, !text || typeof text !== "string"
InvalidText(text) == ~Truthy(text) \/ text.t # "text"

\* how a piece of code ends: with a value, or by throwing
Return(v) == [kind |-> "return", value |-> v]
Throw == [kind |-> "throw", value |-> Undef]

\* line 75: text.slice throws a TypeError on a value that is not a string
SliceThrows(text) == text.t # "text"

\* lines 47-98, the body of the try block once the request has settled:
\* axios rejects on a transport or API error, trim throws on a content that
\* is not a string, and the inner catch turns a parse error into null
TryBody(resp) ==
  IF resp.kind \in {"network_error", "http_error", "non_string_content"} THEN Throw
  ELSE LET aiResponse == IF resp.kind = "content" /\ resp.content # <<>>
                         THEN resp.content ELSE <<"{}">>
           jsonString == Trim(StripFences(Trim(aiResponse)))
       IN  Return(ParseJson(jsonString))

\* variant: the catch block rethrows
CatchAll_rethrow(o) == o

\* lines 99-105: the catch block of processDataWithAI returns null
CatchAll(o) == IF o.kind = "throw" THEN Return(Null) ELSE o

\* lines 41-85: what processDataWithAI does before anything is sent: it
\* returns null on an invalid input, or goes on to send the request
BeforeRequest(t) ==
  IF InvalidText(t) THEN Return(Null)
  ELSE IF SliceThrows(t) THEN CatchAll(Throw)
  ELSE [kind |-> "request", value |-> Undef]

\* lines 46-105: how processDataWithAI ends for a response
ProcessDataWithAIResult(resp) == CatchAll(TryBody(resp))

\* lines 87-105: the value processDataWithAI returns for a response
HandleResponse(resp) == ProcessDataWithAIResult(resp).value

\* -------------------------------------------------------------- data stores
\* the source table: the row of identifier id, when it has one, carries a
\* category that depends on the identifier
Categories == <<"CatA", "CatB">>
CategoryOf(id) == Categories[(id.v % 2) + 1]

SourceRow(id) ==
  [id |-> id, question |-> "Q", answer |-> "A",
   category_display_name |-> CategoryOf(id)]

\* what supabase.from(fromTable).select(...).eq("id", id) can resolve to;
\* "throw" is a rejected promise
FetchResults(id) ==
  {[kind |-> "throw"], [kind |-> "error"], [kind |-> "null"],
   [kind |-> "rows", data |-> <<>>]}
  \cup (IF id.t = "num" THEN {[kind |-> "rows", data |-> <<SourceRow(id)>>]} ELSE {})

InsertResults == {"ok", "error", "throw"}

\* lines 115-123: the fetch produced a row to work on
HasEntry(res) == res.kind = "rows" /\ Len(res.data) # 0

\* line 129: the prompt text
PromptText(e) ==
  TextVal(<<e.question, " ", e.answer, " ", e.category_display_name>>)

\* variant: main_description is not checked
ValidContent_titleOnly(bc) ==
  Truthy(bc) /\ Truthy(Get(bc, "main_title"))

\* line 132: the generator result is usable
ValidContent(bc) ==
  Truthy(bc) /\ Truthy(Get(bc, "main_title")) /\ Truthy(Get(bc, "main_description"))

\* variant: read_more_texts is read from the property of the same name
BuildRow_sameName(e, bc) ==
  [category_display_name |-> Str(e.category_display_name),
   title |-> Get(bc, "main_title"),
   description |-> Get(bc, "main_description"),
   read_more_titles |-> Get(bc, "read_more_titles"),
   read_more_texts |-> Get(bc, "read_more_texts")]

\* lines 137-143: the row handed to insert
BuildRow(e, bc) ==
  [category_display_name |-> Str(e.category_display_name),
   title |-> Get(bc, "main_title"),
   description |-> Get(bc, "main_description"),
   read_more_titles |-> Get(bc, "read_more_titles"),
   read_more_texts |-> Get(bc, "read_more_descriptions")]

\* -------------------------------------------------------------------- state
VARIABLES
  env,          \* which required environment variables are set
  args,         \* process.argv.slice(2).join("")
  pc,           \* where the program is
  exitCode,     \* status passed to process.exit, 0 while running
  idList,       \* the parsed identifier sequence
  idx,          \* position in idList of the for-of loop
  entry,        \* data of the current iteration's fetch
  blogContent,  \* the current iteration's generator result
  text,         \* the argument of the current processDataWithAI call
  response,     \* the settled LLM response of a processDataWithAI call
                \* exercised on its own (the pipeline handles it within a step)
  inflight,     \* external calls issued and not yet settled
  toTable,      \* rows inserted into the destination table, in order
  rowPos,       \* history: for each row of toTable, the position that inserted it
  log,          \* history: per position, the outcomes observed and its state
  events        \* history: calls issued and settled, in order, as <<op, position>>

vars == <<env, args, pc, exitCode, idList, idx, entry, blogContent, text,
          response, inflight, toTable, rowPos, log, events>>

NoResponse == [kind |-> "none"]

\* history tag of a settled fetch
FetchTag(res) ==
  IF res.kind = "rows" /\ res.data = <<>> THEN "empty" ELSE res.kind

NoLog == [fetch |-> "none", cat |-> "", gen |-> Undef, ins |-> "none",
          st |-> "Pending"]

Init ==
  /\ env \in [EnvVars -> BOOLEAN]
  /\ args \in {a \in ArgStrings : Len(ParseIdList(a).ids) <= MaxIds}
  /\ pc = "start"
  /\ exitCode = 0
  /\ idList = <<>>
  /\ idx = 1
  /\ entry = <<>>
  /\ blogContent = Undef
  /\ text = Undef
  /\ response = NoResponse
  /\ inflight = {}
  /\ toTable = <<>>
  /\ rowPos = <<>>
  /\ log = <<>>
  /\ events = <<>>

\* lines 18-21
CheckEnv ==
  /\ pc = "start"
  /\ IF EnvOK(env)
     THEN pc' = "parse" /\ exitCode' = exitCode
     ELSE pc' = "exited" /\ exitCode' = 1
  /\ UNCHANGED <<env, args, idList, idx, entry, blogContent, text, response,
                 inflight, toTable, rowPos, log, events>>

\* lines 25-38, then the call of processEntries at line 154
ParseArgs ==
  /\ pc = "parse"
  /\ LET r == ParseIdList(args)
     IN  IF r.exit
         THEN /\ pc' = "exited" /\ exitCode' = 1
              /\ UNCHANGED <<idList, log>>
         ELSE /\ pc' = "loop" /\ exitCode' = exitCode
              /\ idList' = r.ids
              /\ log' = [k \in 1..Len(r.ids) |-> NoLog]
  /\ UNCHANGED <<env, args, idx, entry, blogContent, text, response, inflight,
                 toTable, rowPos, events>>

\* variant: break instead of continue
Skip_break(k) ==
  /\ pc' = "done"
  /\ idx' = k + 1

\* the continue statements and the end of the loop body: on to the next id
Skip(k) ==
  /\ pc' = "loop"
  /\ idx' = k + 1

\* variant: the loop never completes once the identifiers are exhausted
LoopHead_noDone ==
  /\ pc = "loop"
  /\ idx <= Len(idList)
  /\ pc' = "fetching"
  /\ entry' = <<>>
  /\ blogContent' = Undef
  /\ text' = Undef
  /\ inflight' = inflight \cup {[op |-> "select", table |-> "fromTable",
                                  pos |-> idx, id |-> idList[idx]]}
  /\ log' = [log EXCEPT ![idx].st = "Active"]
  /\ events' = Append(events, <<"fetch", idx>>)
  /\ UNCHANGED <<env, args, exitCode, idList, idx, response, toTable, rowPos>>

\* lines 109-113: take the next identifier and issue its fetch, or finish
LoopHead ==
  /\ pc = "loop"
  /\ IF idx > Len(idList)
     THEN /\ pc' = "done"
          /\ UNCHANGED <<inflight, log, events, entry, blogContent, text>>
     ELSE /\ pc' = "fetching"
          /\ entry' = <<>>
          /\ blogContent' = Undef
          /\ text' = Undef
          /\ inflight' = inflight \cup {[op |-> "select", table |-> "fromTable",
                                          pos |-> idx, id |-> idList[idx]]}
          /\ log' = [log EXCEPT ![idx].st = "Active"]
          /\ events' = Append(events, <<"fetch", idx>>)
  /\ UNCHANGED <<env, args, exitCode, idList, idx, response, toTable, rowPos>>

\* lines 110-130: the fetch settles; on a row, processDataWithAI is called
\* and sends its request (lines 40-47)
FetchReturn ==
  /\ pc = "fetching"
  /\ \E call \in inflight, res \in FetchResults(idList[idx]) :
       /\ call.op = "select"
       /\ IF res.kind = "throw"
          THEN /\ pc' = "rejected"
               /\ inflight' = inflight \ {call}
               /\ log' = [log EXCEPT ![idx].fetch = "throw", ![idx].st = "Aborted"]
               /\ events' = Append(events, <<"fetch_ret", idx>>)
               /\ UNCHANGED <<idx, entry, blogContent, text>>
          ELSE IF ~HasEntry(res)
          THEN /\ Skip(idx)
               /\ inflight' = inflight \ {call}
               /\ log' = [log EXCEPT ![idx].fetch = FetchTag(res),
                                     ![idx].st = "Skipped"]
               /\ events' = Append(events, <<"fetch_ret", idx>>)
               /\ UNCHANGED <<entry, blogContent, text>>
          ELSE LET prompt == PromptText(res.data[1])
                   cat == res.data[1].category_display_name
                   pre == BeforeRequest(prompt)
               IN  /\ entry' = res.data
                   /\ text' = prompt
                   /\ IF pre.kind = "throw"
                      THEN /\ pc' = "rejected"
                           /\ inflight' = inflight \ {call}
                           /\ log' = [log EXCEPT ![idx].fetch = "rows",
                                                 ![idx].cat = cat,
                                                 ![idx].st = "Aborted"]
                           /\ events' = Append(events, <<"fetch_ret", idx>>)
                           /\ UNCHANGED <<idx, blogContent>>
                      ELSE IF pre.kind = "return"
                      THEN /\ blogContent' = pre.value
                           /\ Skip(idx)
                           /\ inflight' = inflight \ {call}
                           /\ log' = [log EXCEPT ![idx].fetch = "rows",
                                                 ![idx].cat = cat,
                                                 ![idx].gen = pre.value,
                                                 ![idx].st = "Skipped"]
                           /\ events' = Append(events, <<"fetch_ret", idx>>)
                      ELSE /\ pc' = "generating"
                           /\ inflight' = (inflight \ {call})
                                \cup {[op |-> "llm", pos |-> idx, text |-> prompt]}
                           /\ log' = [log EXCEPT ![idx].fetch = "rows",
                                                 ![idx].cat = cat]
                           /\ events' = events \o <<<<"fetch_ret", idx>>, <<"llm", idx>>>>
                           /\ UNCHANGED <<idx, blogContent>>
  /\ UNCHANGED <<env, args, exitCode, idList, response, toTable, rowPos>>

\* variant: the insert is issued and not awaited
LLMReturn_noAwait ==
  /\ pc = "generating"
  /\ \E call \in inflight, resp \in LLMResponses :
       /\ call.op = "llm"
       /\ LET out == ProcessDataWithAIResult(resp)
              bc == out.value
          IN  IF out.kind = "throw"
              THEN /\ pc' = "rejected"
                   /\ inflight' = inflight \ {call}
                   /\ log' = [log EXCEPT ![idx].st = "Aborted"]
                   /\ events' = Append(events, <<"llm_ret", idx>>)
                   /\ UNCHANGED <<idx, blogContent>>
              ELSE /\ blogContent' = bc
                   /\ Skip(idx)
                   /\ IF ~ValidContent(bc)
                      THEN /\ inflight' = inflight \ {call}
                           /\ log' = [log EXCEPT ![idx].gen = bc,
                                                 ![idx].st = "Skipped"]
                           /\ events' = Append(events, <<"llm_ret", idx>>)
                      ELSE /\ inflight' = (inflight \ {call})
                                \cup {[op |-> "insert", table |-> "toTable",
                                       pos |-> idx,
                                       row |-> BuildRow(entry[1], bc)]}
                           /\ log' = [log EXCEPT ![idx].gen = bc]
                           /\ events' = events \o <<<<"llm_ret", idx>>,
                                                    <<"insert", idx>>>>
  /\ UNCHANGED <<env, args, exitCode, idList, entry, text, response, toTable,
                 rowPos>>

\* lines 87-105 and 128-143: the LLM request settles, processDataWithAI
\* returns, and the insert is issued for a usable result
LLMReturn ==
  /\ pc = "generating"
  /\ \E call \in inflight, resp \in LLMResponses :
       /\ call.op = "llm"
       /\ LET out == ProcessDataWithAIResult(resp)
              bc == out.value
          IN  IF out.kind = "throw"
              THEN /\ pc' = "rejected"
                   /\ inflight' = inflight \ {call}
                   /\ log' = [log EXCEPT ![idx].st = "Aborted"]
                   /\ events' = Append(events, <<"llm_ret", idx>>)
                   /\ UNCHANGED <<idx, blogContent>>
              ELSE /\ blogContent' = bc
                   /\ IF ~ValidContent(bc)
                      THEN /\ Skip(idx)
                           /\ inflight' = inflight \ {call}
                           /\ log' = [log EXCEPT ![idx].gen = bc,
                                                 ![idx].st = "Skipped"]
                           /\ events' = Append(events, <<"llm_ret", idx>>)
                      ELSE /\ pc' = "inserting"
                           /\ inflight' = (inflight \ {call})
                                \cup {[op |-> "insert", table |-> "toTable",
                                       pos |-> idx,
                                       row |-> BuildRow(entry[1], bc)]}
                           /\ log' = [log EXCEPT ![idx].gen = bc]
                           /\ events' = events \o <<<<"llm_ret", idx>>,
                                                    <<"insert", idx>>>>
                           /\ UNCHANGED idx
  /\ UNCHANGED <<env, args, exitCode, idList, entry, text, response, toTable,
                 rowPos>>

\* variant: a successful insert is repeated for the same identifier
InsertReturn_twice ==
  /\ pc = "inserting"
  /\ \E call \in inflight, res \in InsertResults :
       /\ call.op = "insert"
       /\ inflight' = inflight \ {call}
       /\ events' = Append(events, <<"insert_ret", idx>>)
       /\ IF res = "throw"
          THEN /\ pc' = "rejected"
               /\ log' = [log EXCEPT ![idx].ins = "throw", ![idx].st = "Aborted"]
               /\ UNCHANGED <<idx, toTable, rowPos>>
          ELSE IF res = "error"
          THEN /\ Skip(idx)
               /\ log' = [log EXCEPT ![idx].ins = "error", ![idx].st = "Skipped"]
               /\ UNCHANGED <<toTable, rowPos>>
          ELSE /\ Skip(idx)
               /\ toTable' = toTable \o <<call.row, call.row>>
               /\ rowPos' = rowPos \o <<idx, idx>>
               /\ log' = [log EXCEPT ![idx].ins = "ok", ![idx].st = "Saved"]
  /\ UNCHANGED <<env, args, exitCode, idList, entry, blogContent, text,
                 response>>

\* variant: an identifier whose insert failed is processed again
InsertReturn_retry ==
  /\ pc = "inserting"
  /\ \E call \in inflight, res \in InsertResults :
       /\ call.op = "insert"
       /\ inflight' = inflight \ {call}
       /\ events' = Append(events, <<"insert_ret", idx>>)
       /\ IF res = "throw"
          THEN /\ pc' = "rejected"
               /\ log' = [log EXCEPT ![idx].ins = "throw", ![idx].st = "Aborted"]
               /\ UNCHANGED <<idx, toTable, rowPos>>
          ELSE IF res = "error"
          THEN /\ pc' = "loop"
               /\ log' = [log EXCEPT ![idx].ins = "error"]
               /\ UNCHANGED <<idx, toTable, rowPos>>
          ELSE /\ Skip(idx)
               /\ toTable' = Append(toTable, call.row)
               /\ rowPos' = Append(rowPos, idx)
               /\ log' = [log EXCEPT ![idx].ins = "ok", ![idx].st = "Saved"]
  /\ UNCHANGED <<env, args, exitCode, idList, entry, blogContent, text,
                 response>>

\* variant: a failed insert has written its row all the same
InsertReturn_writeOnError ==
  /\ pc = "inserting"
  /\ \E call \in inflight, res \in InsertResults :
       /\ call.op = "insert"
       /\ inflight' = inflight \ {call}
       /\ events' = Append(events, <<"insert_ret", idx>>)
       /\ IF res = "throw"
          THEN /\ pc' = "rejected"
               /\ log' = [log EXCEPT ![idx].ins = "throw", ![idx].st = "Aborted"]
               /\ UNCHANGED <<idx, toTable, rowPos>>
          ELSE IF res = "error"
          THEN /\ Skip(idx)
               /\ log' = [log EXCEPT ![idx].ins = "error", ![idx].st = "Skipped"]
               /\ toTable' = Append(toTable, call.row)
               /\ rowPos' = Append(rowPos, idx)
          ELSE /\ Skip(idx)
               /\ toTable' = Append(toTable, call.row)
               /\ rowPos' = Append(rowPos, idx)
               /\ log' = [log EXCEPT ![idx].ins = "ok", ![idx].st = "Saved"]
  /\ UNCHANGED <<env, args, exitCode, idList, entry, blogContent, text,
                 response>>

\* lines 137-151: the insert settles
InsertReturn ==
  /\ pc = "inserting"
  /\ \E call \in inflight, res \in InsertResults :
       /\ call.op = "insert"
       /\ inflight' = inflight \ {call}
       /\ events' = Append(events, <<"insert_ret", idx>>)
       /\ IF res = "throw"
          THEN /\ pc' = "rejected"
               /\ log' = [log EXCEPT ![idx].ins = "throw", ![idx].st = "Aborted"]
               /\ UNCHANGED <<idx, toTable, rowPos>>
          ELSE IF res = "error"
          THEN /\ Skip(idx)
               /\ log' = [log EXCEPT ![idx].ins = "error", ![idx].st = "Skipped"]
               /\ UNCHANGED <<toTable, rowPos>>
          ELSE /\ Skip(idx)
               /\ toTable' = Append(toTable, call.row)
               /\ rowPos' = Append(rowPos, idx)
               /\ log' = [log EXCEPT ![idx].ins = "ok", ![idx].st = "Saved"]
  /\ UNCHANGED <<env, args, exitCode, idList, entry, blogContent, text,
                 response>>

Next ==
  \/ CheckEnv
  \/ ParseArgs
  \/ LoopHead
  \/ FetchReturn
  \/ LLMReturn
  \/ InsertReturn

Spec == Init /\ [][Next]_vars

\* every issued call settles and the continuation after each await runs
FairSpec == Spec /\ WF_vars(Next)

TypeOK ==
  /\ pc \in {"start", "parse", "loop", "fetching", "generating", "inserting",
             "done", "rejected", "exited"}
  /\ Len(log) = Len(idList)
  /\ Len(rowPos) = Len(toTable)

\* ------------------------------------- processDataWithAI exercised on its own
MaxCalls == 2    \* calls of processDataWithAI made in a row

\* arguments handed to processDataWithAI: strings, the empty string, and
\* values that are not strings
TextInputs == {TextVal(<<>>), Null, Undef, Num(0), Num(5), EmptyObj,
               TextVal(<<"hello">>),
               PromptText(SourceRow(Num(0))), PromptText(SourceRow(Num(1)))}

GenInit ==
  /\ env = [n \in EnvVars |-> TRUE]
  /\ args = <<>>
  /\ pc = "gen_call"
  /\ exitCode = 0
  /\ idList = <<>>
  /\ idx = 1
  /\ entry = <<>>
  /\ blogContent = Undef
  /\ text \in TextInputs
  /\ response = NoResponse
  /\ inflight = {}
  /\ toTable = <<>>
  /\ rowPos = <<>>
  /\ log = <<>>
  /\ events = <<>>

\* lines 40-85: the call; idx numbers the calls
GenCall ==
  /\ pc = "gen_call"
  /\ LET pre == BeforeRequest(text)
     IN  IF pre.kind = "request"
         THEN /\ pc' = "gen_wait"
              /\ inflight' = inflight \cup {[op |-> "llm", pos |-> idx, text |-> text]}
              /\ events' = Append(events, <<"llm", idx>>)
              /\ UNCHANGED blogContent
         ELSE IF pre.kind = "throw"
         THEN /\ pc' = "gen_raised"
              /\ UNCHANGED <<inflight, events, blogContent>>
         ELSE /\ pc' = "gen_done"
              /\ blogContent' = pre.value
              /\ UNCHANGED <<inflight, events>>
  /\ UNCHANGED <<env, args, exitCode, idList, idx, entry, text, response, toTable,
                 rowPos, log>>

\* lines 47-105: the request settles and processDataWithAI ends
GenReturn ==
  /\ pc = "gen_wait"
  /\ \E call \in inflight, resp \in AllResponses :
       /\ call.op = "llm"
       /\ response' = resp
       /\ inflight' = inflight \ {call}
       /\ events' = Append(events, <<"llm_ret", idx>>)
       /\ LET out == ProcessDataWithAIResult(resp)
          IN  IF out.kind = "throw"
              THEN pc' = "gen_raised" /\ UNCHANGED blogContent
              ELSE pc' = "gen_done" /\ blogContent' = out.value
  /\ UNCHANGED <<env, args, exitCode, idList, idx, entry, text, toTable, rowPos,
                 log>>

\* the caller makes another call
GenAgain ==
  /\ pc = "gen_done"
  /\ idx < MaxCalls
  /\ \E t \in TextInputs : text' = t
  /\ idx' = idx + 1
  /\ pc' = "gen_call"
  /\ blogContent' = Undef
  /\ response' = NoResponse
  /\ UNCHANGED <<env, args, exitCode, idList, entry, inflight, toTable, rowPos,
                 log, events>>

GenNext ==
  \/ GenCall
  \/ GenReturn
  \/ GenAgain

GenSpec == GenInit /\ [][GenNext]_vars

\* ------------------------------------------------------------- vocabulary
Positions == 1..Len(idList)
Terminal == {"Saved", "Skipped"}
Issued(op, k) == \E e \in 1..Len(events) : events[e] = <<op, k>>
RowsOf(k) == {r \in 1..Len(toTable) : rowPos[r] = k}

\* a generator result with main_title and main_description present, non-empty
NonEmptyField(g, name) ==
  /\ g.t = "obj"
  /\ name \in DOMAIN g.f
  /\ g.f[name].t = "str"
  /\ g.f[name].s # ""
GenComplete(g) == NonEmptyField(g, "main_title") /\ NonEmptyField(g, "main_description")

\* position k's own fetch, generation and insert all succeeded
OwnSuccess(k) ==
  /\ log[k].fetch = "rows"
  /\ GenComplete(log[k].gen)
  /\ log[k].ins = "ok"

Ids123 == <<Num(1), Num(2), Num(3)>>

\* C1: failure isolation. Whatever error values the stages of earlier
\* identifiers returned, every identifier that has reached a terminal state
\* is Saved exactly when its own fetch, generation and insert succeeded; at
\* the end of the run every identifier has been fetched and the destination
\* holds one row per such identifier; for ids [1,2,3] where only the fetch
\* of 2 errors the destination receives exactly the inserts of 1 and 3.
C1_FailureIsolation ==
  /\ \A j \in Positions :
       log[j].st \in Terminal => (log[j].st = "Saved" <=> OwnSuccess(j))
  /\ pc = "done" =>
       /\ \A j \in Positions : Issued("fetch", j) /\ log[j].st \in Terminal
       /\ \A j \in Positions :
            Cardinality(RowsOf(j)) = IF OwnSuccess(j) THEN 1 ELSE 0
       /\ (idList = Ids123 /\ OwnSuccess(1) /\ log[2].fetch = "error" /\ OwnSuccess(3))
            => Len(toTable) = 2 /\ rowPos = <<1, 3>>

C1_Witness ==
  /\ pc = "done"
  /\ idList = Ids123
  /\ OwnSuccess(1) /\ log[2].fetch = "error" /\ OwnSuccess(3)
  /\ Len(toTable) = 2

\* C2: no exception crosses an iteration boundary: an identifier whose fetch
\* or insert threw is Skipped and the run is not aborted.
C2_NoExceptionCrosses ==
  /\ pc # "rejected"
  /\ \A k \in Positions :
       (log[k].fetch = "throw" \/ log[k].ins = "throw") => log[k].st = "Skipped"

\* C3: stage guards. The LLM request of an identifier is issued only after
\* its fetch returned no error and at least one row; its insert is issued
\* only if, in addition, the generator result has main_title and
\* main_description present and non-empty; an identifier whose result is
\* null or incomplete gets no insert and no row, and the loop moves on.
C3_StageGuards ==
  \A k \in Positions :
    /\ Issued("llm", k) => log[k].fetch = "rows"
    /\ Issued("insert", k) => log[k].fetch = "rows" /\ GenComplete(log[k].gen)
    /\ (Issued("llm_ret", k) /\ ~GenComplete(log[k].gen)) =>
         /\ ~Issued("insert", k)
         /\ RowsOf(k) = {}
         /\ log[k].st = "Skipped"
         /\ pc \in {"loop", "fetching", "generating", "inserting", "done", "rejected"}
         /\ idx > k

C3_Witness ==
  /\ pc = "done"
  /\ Len(idList) = 2
  /\ log[1].gen = NoDescription /\ log[1].st = "Skipped"
  /\ log[2].st = "Saved"

\* rows inserted for identifier value v, and the positions holding v
RowsOfId(v) == {r \in 1..Len(toTable) : idList[rowPos[r]] = v}
Occurrences(v) == {k \in Positions : idList[k] = v}
IdValues == {idList[k] : k \in Positions}

\* C4 (as stated): no identifier value gets more than one destination row
C4_OneRowPerIdentifier ==
  \A v \in IdValues : Cardinality(RowsOfId(v)) <= 1

\* C4 (amended): no position of the identifier sequence gets more than one
\* destination row, so an identifier value gets at most as many rows as the
\* sequence has occurrences of it (at most one when the sequence does not
\* repeat it).
C4_OneRowPerPosition ==
  /\ \A k \in Positions : Cardinality(RowsOf(k)) <= 1
  /\ \A v \in IdValues : Cardinality(RowsOfId(v)) <= Cardinality(Occurrences(v))

C4_Witness ==
  /\ pc = "done"
  /\ idList = <<Num(1), Num(1)>>
  /\ Len(toTable) = 2

\* an array of exactly three strings
IsTriple(v) == v.t = "arr" /\ Len(v.a) = 3

\* C5: every inserted row has read_more_titles and read_more_texts each
\* present as a sequence of exactly 3 strings (a result lacking
\* read_more_descriptions, or with a list of another length, is never
\* inserted).
C5_InsertedRowsFullyPopulated ==
  \A r \in 1..Len(toTable) :
    IsTriple(toTable[r].read_more_titles) /\ IsTriple(toTable[r].read_more_texts)

\* position in the per-identifier order fetch, LLM request, insert
Rank(op) ==
  CASE op = "fetch" -> 1
    [] op = "fetch_ret" -> 2
    [] op = "llm" -> 3
    [] op = "llm_ret" -> 4
    [] op = "insert" -> 5
    [] op = "insert_ret" -> 6

\* event e comes before event f in the order of positions and, within a
\* position, of stages (a strict total order, so consecutive events suffice)
Before(e, f) == e[2] < f[2] \/ (e[2] = f[2] /\ Rank(e[1]) < Rank(f[1]))

\* C6: identifiers are processed one at a time in the order of the parsed
\* sequence: at most one external call is in flight; calls are issued and
\* settled position by position, and within a position in the order fetch,
\* LLM request, insert, each settled before the next is issued; the fetch of
\* position k+1 is issued only after position k is Saved or Skipped, and it
\* asks for the identifier at that position.
C6_Sequential ==
  /\ Cardinality(inflight) <= 1
  /\ \A a \in 1..(Len(events) - 1) : Before(events[a], events[a + 1])
  /\ \A k \in Positions :
       (k > 1 /\ Issued("fetch", k)) => log[k - 1].st \in Terminal
  /\ \A c \in inflight : c.op = "select" => c.id = idList[c.pos] /\ c.pos = idx

C6_Witness ==
  /\ pc = "fetching"
  /\ idx = 3
  /\ log[1].st = "Saved"
  /\ log[2].st = "Skipped"
  /\ Cardinality(inflight) = 1

\* C7: every inserted row carries the category of the source row fetched
\* for its own identifier and the fields of the result generated for it:
\* title = main_title, description = main_description, read_more_titles =
\* read_more_titles, read_more_texts = read_more_descriptions.
C7_RowShape ==
  \A r \in 1..Len(toTable) :
    LET k == rowPos[r]
        g == log[k].gen
    IN  /\ log[k].fetch = "rows"
        /\ toTable[r].category_display_name = Str(log[k].cat)
        /\ toTable[r].title = g.f.main_title
        /\ toTable[r].description = g.f.main_description
        /\ toTable[r].read_more_titles = Get(g, "read_more_titles")
        /\ toTable[r].read_more_texts = Get(g, "read_more_descriptions")

C7_Witness ==
  /\ idList = <<Num(0), Num(1)>>
  /\ Len(toTable) = 2
  /\ toTable[1] = [category_display_name |-> Str("CatA"), title |-> Str("T1"),
                   description |-> Str("D1"),
                   read_more_titles |-> Arr(<<"a", "b", "c">>),
                   read_more_texts |-> Arr(<<"x", "y", "z">>)]
  /\ toTable[2].category_display_name = Str("CatB")
  /\ toTable[2].title = Str("Default Title")

\* a token that is a non-empty string of digits
NumericToken(tok) == tok # <<>> /\ \A i \in 1..Len(tok) : tok[i] \in Digits

\* a range-form spec with a non-numeric token or with max < min
DegenerateRange(a) ==
  /\ Includes(a, "-")
  /\ LET toks == Split(a, "-")
     IN  \/ ~NumericToken(toks[1])
         \/ ~NumericToken(toks[2])
         \/ DecVal(toks[2], 0) < DecVal(toks[1], 0)

Parsed == pc \notin {"start", "parse"}
NoWork == events = <<>> /\ inflight = {} /\ toTable = <<>>

\* C8: a degenerate range is rejected: the process exits with an error
\* before any fetch, LLM request or insert.
C8_DegenerateRangeRejected ==
  (Parsed /\ DegenerateRange(args)) => pc = "exited" /\ exitCode # 0 /\ NoWork

\* C9: a spec with neither '-' nor ',' makes the process exit with non-zero
\* status, and no fetch, LLM request or insert is ever performed.
C9_NoSeparatorRejected ==
  (~Includes(args, "-") /\ ~Includes(args, ",")) =>
     /\ pc \in {"start", "parse", "exited"}
     /\ pc = "exited" => exitCode # 0
     /\ NoWork
     /\ idList = <<>>

C9_Witness ==
  /\ EnvOK(env)
  /\ args = <<"3">>
  /\ pc = "exited"
  /\ exitCode = 1

\* decimal numeral of a natural number
DigitChar(d) == <<"0", "1", "2", "3", "4", "5", "6", "7", "8", "9">>[d + 1]
RECURSIVE Numeral(_)
Numeral(n) == IF n < 10 THEN <<DigitChar(n)>> ELSE Append(Numeral(n \div 10), DigitChar(n % 10))

RangeSpec(min, max) == Numeral(min) \o <<"-">> \o Numeral(max)
StartsWith(s, pre) == Len(pre) <= Len(s) /\ SubSeq(s, 1, Len(pre)) = pre

\* the largest value a token of an explored spec "min-max" can denote
MaxVal == 10 ^ (MaxLen - 2)

\* a spec of two non-empty digit strings joined by one '-'
RangeShaped(a) ==
  \E i \in 2..(Len(a) - 1) :
    /\ a[i] = "-"
    /\ \A j \in 1..Len(a) : j # i => a[j] \in Digits

\* C10: for the spec "min-max" with min <= max the parsed sequence is
\* exactly min, min+1, ..., max: ascending, without duplicates, of length
\* max-min+1.
C10_RangeForm ==
  (Parsed /\ pc # "exited" /\ RangeShaped(args)) =>
    \A min \in 0..MaxVal :
      StartsWith(args, Append(Numeral(min), "-")) =>
        \A max \in min..MaxVal :
          args = RangeSpec(min, max) =>
            /\ Len(idList) = max - min + 1
            /\ \A i \in 1..Len(idList) : idList[i] = Num(min + i - 1)
            /\ \A i, j \in 1..Len(idList) : i < j => idList[i].v < idList[j].v

C10_Witness ==
  /\ args = <<"1", "-", "3">>
  /\ idList = Ids123

\* a spec of non-empty digit strings separated by ','
ListShaped(a) ==
  /\ Includes(a, ",")
  /\ \A i \in 1..Len(a) : a[i] \in Digits \cup {","}
  /\ a[1] # "," /\ a[Len(a)] # ","
  /\ \A i \in 1..(Len(a) - 1) : ~(a[i] = "," /\ a[i + 1] = ",")

CommaCount(a) == Cardinality({i \in 1..Len(a) : a[i] = ","})

\* the list-form spec that denotes a sequence of naturals
RECURSIVE ListSpec(_)
ListSpec(ids) ==
  IF ids = <<>> THEN <<>>
  ELSE IF Len(ids) = 1 THEN Numeral(ids[1].v)
  ELSE Numeral(ids[1].v) \o <<",">> \o ListSpec(Tail(ids))

\* C11: for a spec of integer tokens separated by ',' the parsed sequence
\* has one element per token, in input order, duplicates kept: it is the
\* sequence of integers whose numerals, joined by ',', give the spec back.
C11_ListForm ==
  (Parsed /\ pc # "exited" /\ ListShaped(args)) =>
    /\ Len(idList) = CommaCount(args) + 1
    /\ \A i \in 1..Len(idList) : idList[i].t = "num"
    /\ ListSpec(idList) = args

C11_Witness ==
  /\ args = <<"1", ",", "1">>
  /\ idList = <<Num(1), Num(1)>>
  /\ pc = "done"

\* a transport-level or API-level failure of the LLM request
TransportError(resp) == resp.kind \in {"network_error", "http_error"}

\* a body none of whose pieces is a JSON document
NoJsonIn(c) == \A i \in 1..Len(c) : c[i] \notin JsonTexts

\* C12: processDataWithAI never raises past its boundary: for every outcome
\* of the LLM request the call completes and returns a parsed value or
\* null; a transport or API error, a content that is not a string and a
\* body that is not JSON are returned as null.
C12_NeverRaises ==
  /\ pc # "gen_raised"
  /\ (pc = "gen_done" /\ response # NoResponse) =>
       /\ blogContent = Null \/ \E j \in JsonTexts : blogContent = JSONValue(j)
       /\ TransportError(response) => blogContent = Null
       /\ response.kind = "non_string_content" => blogContent = Null
       /\ (response.kind = "content" /\ response.content # <<>>
             /\ NoJsonIn(response.content)) => blogContent = Null

C12_Witness ==
  /\ pc = "gen_done"
  /\ \/ response.kind = "http_error"
     \/ response = [kind |-> "content", content |-> <<"junk">>]
  /\ blogContent = Null

\* an argument that is not a non-empty string
InvalidInput(t) == IF t.t = "text" THEN t.s = <<>> ELSE TRUE

\* C13: a call of processDataWithAI with an empty string or a value that is
\* not a string returns null and sends no LLM request: the requests sent
\* so far and the requests in flight are unchanged by the call.
C13_InvalidInputNoRequest ==
  [][(pc = "gen_call" /\ InvalidInput(text)) =>
       /\ pc' = "gen_done"
       /\ blogContent' = Null
       /\ events' = events
       /\ inflight' = inflight]_vars

C13_Witness ==
  /\ pc = "gen_done"
  /\ idx = 2
  /\ text = Num(5)
  /\ blogContent = Null
  /\ events = <<<<"llm", 1>>, <<"llm_ret", 1>>>>

\* C16: for every JSON body B, the value returned when the model emits B
\* wrapped in json fences or in plain fences is the value returned when it
\* emits B unfenced, which is the value B denotes.
C16_FenceRoundTrip ==
  \A j \in JsonTexts :
    (pc = "gen_done" /\ response.kind = "content"
       /\ response.content \in {WrapJson(j), WrapPlain(j)}) =>
      /\ blogContent = HandleResponse([kind |-> "content", content |-> <<j>>])
      /\ blogContent = JSONValue(j)

C16_Witness ==
  /\ pc = "gen_done"
  /\ response = [kind |-> "content", content |-> WrapJson("{full1}")]
  /\ blogContent = Full1

\* a required environment variable is unset
MissingConfig ==
  ~env["SUPABASE_URL"] \/ ~env["SUPABASE_ANON_KEY"] \/ ~env["OPENROUTER_API_KEY"]

\* C14: with a required environment variable unset the process exits with
\* non-zero status before any work: no identifier is parsed or fetched, no
\* LLM request is sent and no row is inserted.
C14_MissingConfigFatal ==
  MissingConfig =>
    /\ pc \in {"start", "exited"}
    /\ pc = "exited" => exitCode # 0
    /\ idList = <<>>
    /\ NoWork

C14_Witness ==
  /\ pc = "exited"
  /\ exitCode = 1
  /\ env = [n \in EnvVars |-> n # "OPENROUTER_API_KEY"]
  /\ args = <<"1", "-", "3">>

SavedSet == {k \in Positions : log[k].st = "Saved"}
SkippedSet == {k \in Positions : log[k].st = "Skipped"}

\* every position is Saved or Skipped and the rows inserted are the Saved ones
Accounted ==
  /\ \A k \in Positions : log[k].st \in Terminal
  /\ Cardinality(SavedSet) + Cardinality(SkippedSet) = Len(idList)
  /\ Len(toTable) = Cardinality(SavedSet)

\* C15: once processEntries has started, and with every call returning (a
\* run in which a call throws ends rejected and is the case of C2), the run
\* eventually finishes, and when it has finished every position of the
\* sequence is Saved or Skipped, Saved + Skipped is the length of the
\* sequence and the number of rows inserted is the Saved count.
C15_RunCompletes ==
  /\ (pc = "loop") ~> (pc \in {"done", "rejected"})
  /\ [](pc = "done" => Accounted)

C15_Witness ==
  /\ pc = "done"
  /\ Len(idList) = 3
  /\ Cardinality(SavedSet) = 2
  /\ Cardinality(SkippedSet) = 1
  /\ Len(toTable) = 2

\* C17: no retry and no re-queue: every position causes at most one fetch,
\* one LLM request and one insert attempt, also after a failure, and the
\* identifier sequence stays the parsed one (nothing is appended to it).
C17_NoRetry ==
  /\ Cardinality({events[e] : e \in 1..Len(events)}) = Len(events)
  /\ \A e \in 1..Len(events) : events[e][2] \in Positions
  /\ (Parsed /\ pc # "exited") => idList = ParseIdList(args).ids

C17_Witness ==
  /\ pc = "done"
  /\ Len(idList) = 2
  /\ log[1].ins = "error"
  /\ log[1].st = "Skipped"
  /\ log[2].st = "Saved"
  /\ Len(events) = 12

\* s is the beginning of t
IsPrefix(s, t) == Len(s) <= Len(t) /\ SubSeq(t, 1, Len(s)) = s

\* C18: the pipeline is append-only: a step changes the destination table
\* only by appending the one row of the identifier that becomes Saved; rows
\* already there stay as they are; a failed insert leaves the table
\* unchanged; the only call on the source table is a select and the only
\* call on the destination table is an insert.
C18_AppendOnly ==
  [][/\ IsPrefix(toTable, toTable')
     /\ Len(toTable') <= Len(toTable) + 1
     /\ toTable' # toTable =>
          /\ pc = "inserting"
          /\ log'[idx].ins = "ok"
          /\ log'[idx].st = "Saved"
          /\ log[idx].st # "Saved"
     /\ (pc = "inserting" /\ log'[idx].ins \in {"error", "throw"}) =>
          toTable' = toTable
     /\ \A c \in inflight' :
          c.op # "llm" =>
            \/ c.op = "select" /\ c.table = "fromTable"
            \/ c.op = "insert" /\ c.table = "toTable"]_vars

C18_Witness ==
  /\ pc = "done"
  /\ Len(idList) = 2
  /\ log[1].st = "Saved"
  /\ log[2].ins = "error"
  /\ Len(toTable) = 1

\* C19: every element of the identifier sequence handed to processEntries
\* is an integer (no NaN), and every fetch is made with an integer id.
C19_AllIntegers ==
  /\ \A k \in Positions : idList[k].t = "num"
  /\ \A c \in inflight : c.op = "select" => c.id.t = "num"

====
